---- MODULE Spec2Model ----
(***************************************************************************)
(* Tech Buddy: the POST /api/chat handler of server/server.js and the chat *)
(* loop of client/src/App.js.                                              *)
(*                                                                         *)
(* A JavaScript value is a record with a `type` field.  A string is a      *)
(* sequence of tokens (a token is one character of user text, or one fixed *)
(* fragment of a message), so that concatenation, trimming and emptiness   *)
(* are computed rather than assumed.                                       *)
(***************************************************************************)
EXTENDS Integers, Sequences, FiniteSets, TLC

\* ------------------------------------------------------------------ bounds
\* Longest prompt / input text, in characters.
MaxLen == 1
\* Most messages the chat window holds before the model stops sending.
MaxMessages == 4

\* --------------------------------------------------------------- JS values
Undefined == [type |-> "undefined"]
Str(s) == [type |-> "string", val |-> s]

\* JavaScript truthiness of undefined and of strings: `!v` is ~Truthy(v).
Truthy(v) == v.type = "string" /\ Len(v.val) > 0

\* `${a}${b}` on strings.
Concat(a, b) == Str(a.val \o b.val)

\* The characters of user text: a blank and a letter.
Chars == {" ", "h"}

RECURSIVE SeqsUpTo(_, _)
SeqsUpTo(S, n) ==
    IF n = 0 THEN {<<>>}
    ELSE LET shorter == SeqsUpTo(S, n - 1)
         IN  shorter \cup {Append(s, c) : s \in {t \in shorter : Len(t) = n - 1}, c \in S}

Texts == SeqsUpTo(Chars, MaxLen)

RECURSIVE TrimStart(_)
TrimStart(s) == IF s # <<>> /\ Head(s) = " " THEN TrimStart(Tail(s)) ELSE s

RECURSIVE TrimEnd(_)
TrimEnd(s) ==
    IF s # <<>> /\ s[Len(s)] = " " THEN TrimEnd(SubSeq(s, 1, Len(s) - 1)) ELSE s

\* String.prototype.trim
Trim(s) == TrimEnd(TrimStart(s))

\* ------------------------------------------------------------ the requests
\* Two handler invocations may be in flight at once.
Requests == {"r1", "r2"}

\* req.body after express.json(): prompt and apiKey may be absent.
Prompts == {Undefined} \cup {Str(t) : t \in Texts}
ApiKeys == {Undefined, Str(<<>>), Str(<<"k">>)}
Bodies == [prompt : Prompts, useLocal : BOOLEAN, apiKey : ApiKeys]
NoBody == [prompt |-> Undefined, useLocal |-> FALSE, apiKey |-> Undefined]

\* Property access `o.f` and optional chaining `o?.f`, `a?.[i]`.
Get(o, f) == IF f \in DOMAIN o THEN o[f] ELSE Undefined
Opt(o, f) == IF o = Undefined THEN Undefined ELSE Get(o, f)
Arr(s) == [type |-> "array", val |-> s]
OptAt(a, i) ==
    IF a = Undefined THEN Undefined
    ELSE IF a.type = "array" /\ i + 1 <= Len(a.val) THEN a.val[i + 1]
    ELSE Undefined

\* `a || b`
Or(a, b) == IF Truthy(a) THEN a ELSE b

\* new Error(message): an Error has no `code`.
Error(message) == [code |-> Undefined, message |-> message]

\* ----------------------------------------------------- what a backend may do
\* fetch() rejects with a system error, or resolves with a Response.
FetchErrors ==
    { [code |-> Str(<<"ECONNREFUSED">>), message |-> Str(<<"connect ECONNREFUSED">>)],
      [code |-> Str(<<"ETIMEDOUT">>), message |-> Str(<<"network timeout">>)] }
Pending == [kind |-> "pending"]
FetchOutcomes ==
    {[kind |-> "reject", error |-> e] : e \in FetchErrors}
    \cup {[kind |-> "resolve", ok |-> TRUE, statusText |-> Str(<<"OK">>)],
          [kind |-> "resolve", ok |-> FALSE, statusText |-> Str(<<"Forbidden">>)]}

\* Response.json() rejects on a body that is no JSON, or resolves with the data.
SyntaxError == [code |-> Undefined, message |-> Str(<<"Unexpected token">>)]
Obj(f) == [type |-> "object"] @@ f
Part(t) == Obj([text |-> t])
Candidate(c) == Obj([content |-> c])
Content(ps) == Obj([parts |-> Arr(ps)])

OllamaBodies ==
    { Obj(<<>>), Obj([response |-> Str(<<>>)]), Obj([response |-> Str(<<"X", " ">>)]) }
GeminiErrorBodies ==
    { Obj(<<>>), Obj([error |-> Obj(<<>>)]), Obj([error |-> Obj([message |-> Str(<<>>)])]),
      Obj([error |-> Obj([message |-> Str(<<"bad key">>)])]) }
GeminiBodies ==
    { Obj(<<>>), Obj([candidates |-> Arr(<<>>)]),
      Obj([candidates |-> Arr(<<Candidate(Undefined)>>)]),
      Obj([candidates |-> Arr(<<Candidate(Content(<<Part(Str(<<>>))>>))>>)]),
      Obj([candidates |-> Arr(<<Candidate(Content(<<Part(Str(<<"Y">>))>>))>>)]) }
JsonOutcomes(bodies) ==
    {[kind |-> "reject", error |-> SyntaxError]} \cup {[kind |-> "resolve", data |-> d] : d \in bodies}

\* The server: per invocation of the handler, where it stands, req.body, the
\* outbound calls it has made, how its fetch and its json() settled, its
\* llmResponseText and the responses it has sent.
VARIABLES pc, body, calls, fres, jres, llmResponseText, sent

\* The client: the state of App, the handleSendMessage invocations that are
\* waiting (each at its await), and how the last finished one was answered.
VARIABLES messages, inputText, apiKey, isLoading, error, showSettings, useLocal,
          pending, lastReply

serverVars == <<pc, body, calls, fres, jres, llmResponseText, sent>>
clientVars ==
    <<messages, inputText, apiKey, isLoading, error, showSettings, useLocal, pending, lastReply>>
vars == <<serverVars, clientVars>>

\* ------------------------------------------------- the handler, as operators
\* res.status(400).json({ message }), res.json({ response }): what is handed to
\* res.json, and under which status.
Reply(status, payload) == [status |-> status, body |-> payload]

PromptRequired == Reply(400, [message |-> Str(<<"Prompt is required.">>)])
ApiKeyRequired == Reply(400, [message |-> Str(<<"API Key is required for Cloud model.">>)])

\* Line 23: `if (!prompt)`.
PromptMissing(b) == ~Truthy(b.prompt)

\* Line 70: `if (!apiKey)`.
ApiKeyMissingAbsentOnly(b) == b.apiKey = Undefined
ApiKeyMissing(b) == ~Truthy(b.apiKey)

\* Line 30: `if (useLocal)` chooses the backend.
RouteSwapped(b) == IF b.useLocal THEN "cloud" ELSE "local"
Route(b) == IF b.useLocal THEN "local" ELSE "cloud"

JsonHeaders == [ContentType |-> Str(<<"application/json">>)]
ollamaUrl == Str(<<"http://localhost:11434/api/generate">>)
geminiUrl ==
    Str(<<"https://generativelanguage.googleapis.com/v1beta/models/gemini-2.0-flash:generateContent?key=">>)

\* Lines 33-48: the one request sent to Ollama.
OllamaCallWithKey(b) ==
    [ url |-> ollamaUrl, method |-> "POST",
      headers |-> JsonHeaders @@ [Authorization |-> b.apiKey],
      body |-> [model |-> Str(<<"gemma3:12b-it-qat">>), prompt |-> b.prompt, stream |-> FALSE] ]
OllamaCall(b) ==
    [ url |-> ollamaUrl, method |-> "POST", headers |-> JsonHeaders,
      body |-> [model |-> Str(<<"gemma3:12b-it-qat">>), prompt |-> b.prompt, stream |-> FALSE] ]

\* Lines 74-82: the one request sent to Gemini, the key in the URL.
GeminiCall(b) ==
    [ url |-> Concat(geminiUrl, b.apiKey), method |-> "POST", headers |-> JsonHeaders,
      body |-> [contents |-> <<[role |-> "user", parts |-> <<[text |-> b.prompt]>>]>>] ]

\* Lines 57-65: the local branch's catch rewrites a refused connection and
\* rethrows everything else.
InnerCatch(e) ==
    IF e.code = Str(<<"ECONNREFUSED">>)
    THEN Error(Str(<<"Could not connect to the local Ollama server. Please ensure it is running on http://localhost:11434.">>))
    ELSE e

\* Lines 100-103: the outer catch answers every thrown error with a 500.
\* The value is the sequence of responses the block sends.
OuterCatchPassThrough(e) == <<Reply(500, [message |-> e.message])>>
OuterCatchLogOnly(e) == <<>>
OuterCatch(e) ==
    <<Reply(500, [message |-> Concat(Str(<<"Internal server error: ">>), e.message)])>>

\* Line 51.
OllamaStatusError(f) == Error(Concat(Str(<<"Ollama server returned an error: ">>), f.statusText))

\* Line 55: `ollamaData.response`, taken as it is.
OllamaTextTrimmed(data) ==
    IF Get(data, "response").type = "string"
    THEN Str(Trim(Get(data, "response").val)) ELSE Get(data, "response")
OllamaText(data) == Get(data, "response")

\* Line 87.
GeminiStatusError(data) ==
    Error(Or(Opt(Get(data, "error"), "message"), Str(<<"Gemini API request failed">>)))

\* Line 91: geminiResult.candidates?.[0]?.content?.parts?.[0]?.text
GeminiText(data) ==
    Opt(OptAt(Opt(Opt(OptAt(Get(data, "candidates"), 0), "content"), "parts"), 0), "text")

NoContent == Error(Str(<<"No content found in Gemini API response.">>))

\* Line 98: res.json({ response: llmResponseText })
Success(text) == <<Reply(200, [response |-> text])>>

\* Line 17: each invocation answers on the `res` it was called with.
ResOfShared(r) == "r1"
ResOf(r) == r

\* --------------------------------------------------------------- the server
ServerInit ==
    /\ pc = [r \in Requests |-> "idle"]
    /\ body = [r \in Requests |-> NoBody]
    /\ calls = [r \in Requests |-> <<>>]
    /\ fres = [r \in Requests |-> Pending]
    /\ jres = [r \in Requests |-> Pending]
    /\ llmResponseText = [r \in Requests |-> Undefined]
    /\ sent = [r \in Requests |-> <<>>]

\* The handler ends, having sent `responses` (none, when it only returns).
Finish(r, responses) ==
    /\ pc' = [pc EXCEPT ![r] = "done"]
    /\ sent' = [sent EXCEPT ![ResOf(r)] = @ \o responses]

\* Lines 17-19: a request arrives; the handler runs up to `await import(...)`.
Receive(r) ==
    /\ pc[r] = "idle"
    /\ UNCHANGED clientVars
    /\ \E b \in Bodies : body' = [body EXCEPT ![r] = b]
    /\ pc' = [pc EXCEPT ![r] = "import"]
    /\ UNCHANGED <<calls, fres, jres, llmResponseText, sent>>

\* Lines 21-48 and 67-82: validation, then the one outbound fetch is issued
\* and the handler waits for it.
Validate(r) ==
    /\ pc[r] = "import"
    /\ UNCHANGED clientVars
    /\ LET b == body[r] IN
       IF PromptMissing(b) THEN
           /\ Finish(r, <<PromptRequired>>)
           /\ UNCHANGED calls
       ELSE IF Route(b) = "local" THEN
           /\ calls' = [calls EXCEPT ![r] = Append(@, OllamaCall(b))]
           /\ pc' = [pc EXCEPT ![r] = "fetchLocal"]
           /\ UNCHANGED sent
       ELSE IF ApiKeyMissing(b) THEN
           /\ Finish(r, <<ApiKeyRequired>>)
           /\ UNCHANGED calls
       ELSE
           /\ calls' = [calls EXCEPT ![r] = Append(@, GeminiCall(b))]
           /\ pc' = [pc EXCEPT ![r] = "fetchCloud"]
           /\ UNCHANGED sent
    /\ UNCHANGED <<body, fres, jres, llmResponseText>>

\* Lines 44-54 and 57-65: Ollama's fetch settles.
FetchLocal(r) ==
    /\ pc[r] = "fetchLocal"
    /\ UNCHANGED clientVars
    /\ \E f \in FetchOutcomes :
        /\ fres' = [fres EXCEPT ![r] = f]
        /\ IF f.kind = "reject" THEN Finish(r, OuterCatch(InnerCatch(f.error)))
           ELSE IF ~f.ok THEN Finish(r, OuterCatch(InnerCatch(OllamaStatusError(f))))
           ELSE /\ pc' = [pc EXCEPT ![r] = "jsonLocal"]
                /\ UNCHANGED sent
    /\ UNCHANGED <<body, calls, jres, llmResponseText>>

\* Lines 54-55, 98: Ollama's body is parsed and answered with.
JsonLocal(r) ==
    /\ pc[r] = "jsonLocal"
    /\ UNCHANGED clientVars
    /\ \E j \in JsonOutcomes(OllamaBodies) :
        /\ jres' = [jres EXCEPT ![r] = j]
        /\ IF j.kind = "reject"
           THEN /\ Finish(r, OuterCatch(InnerCatch(j.error)))
                /\ UNCHANGED llmResponseText
           ELSE /\ llmResponseText' = [llmResponseText EXCEPT ![r] = OllamaText(j.data)]
                /\ Finish(r, Success(llmResponseText'[r]))
    /\ UNCHANGED <<body, calls, fres>>

\* Lines 78-90: Gemini's fetch settles; both branches then parse the body.
FetchCloud(r) ==
    /\ pc[r] = "fetchCloud"
    /\ UNCHANGED clientVars
    /\ \E f \in FetchOutcomes :
        /\ fres' = [fres EXCEPT ![r] = f]
        /\ IF f.kind = "reject" THEN Finish(r, OuterCatch(f.error))
           ELSE /\ pc' = [pc EXCEPT ![r] = IF f.ok THEN "jsonCloud" ELSE "jsonCloudError"]
                /\ UNCHANGED sent
    /\ UNCHANGED <<body, calls, jres, llmResponseText>>

\* Lines 85-87: the error body of a non-success status.
JsonCloudError(r) ==
    /\ pc[r] = "jsonCloudError"
    /\ UNCHANGED clientVars
    /\ \E j \in JsonOutcomes(GeminiErrorBodies) :
        /\ jres' = [jres EXCEPT ![r] = j]
        /\ IF j.kind = "reject" THEN Finish(r, OuterCatch(j.error))
           ELSE Finish(r, OuterCatch(GeminiStatusError(j.data)))
    /\ UNCHANGED <<body, calls, fres, llmResponseText>>

\* Lines 90-98: the body of a success status.
JsonCloud(r) ==
    /\ pc[r] = "jsonCloud"
    /\ UNCHANGED clientVars
    /\ \E j \in JsonOutcomes(GeminiBodies) :
        /\ jres' = [jres EXCEPT ![r] = j]
        /\ IF j.kind = "reject"
           THEN /\ Finish(r, OuterCatch(j.error))
                /\ UNCHANGED llmResponseText
           ELSE IF Truthy(GeminiText(j.data))
           THEN /\ llmResponseText' = [llmResponseText EXCEPT ![r] = GeminiText(j.data)]
                /\ Finish(r, Success(llmResponseText'[r]))
           ELSE /\ Finish(r, OuterCatch(NoContent))
                /\ UNCHANGED llmResponseText
    /\ UNCHANGED <<body, calls, fres>>

\* Every step of one invocation after its arrival.
Handle(r) ==
    Validate(r) \/ FetchLocal(r) \/ JsonLocal(r) \/ FetchCloud(r) \/ JsonCloudError(r) \/ JsonCloud(r)

\* ---------------------------------------------------------------- the client
\* Lines 6-18: the initial state of App.
ClientInit ==
    /\ messages = <<>>
    /\ inputText = <<>>
    /\ apiKey = <<>>
    /\ isLoading = FALSE
    /\ error = <<>>
    /\ showSettings = FALSE
    /\ useLocal = TRUE
    /\ pending = <<>>
    /\ lastReply = Pending

Init == ServerInit /\ ClientInit

Next == \E r \in Requests : Receive(r) \/ Handle(r)

Spec == Init /\ [][Next]_vars

\* The event loop runs every continuation that is ready, and the claim about
\* termination assumes a backend that settles each call.
FairSpec == Spec /\ \A r \in Requests : WF_vars(Handle(r))

\* ------------------------------------------------------- the client's steps
\* React renders after every event handler and every awaited continuation, so
\* each event meets the attributes of the state it happens in.
\* Line 351: the text input is disabled while a request is in flight.
InputDisabled == isLoading
\* Line 359: so is the send button, and it needs a non-blank text.
SendDisabled == isLoading \/ Trim(inputText) = <<>>

User(text) == [type |-> "user", text |-> Str(text)]
Bot(text) == [type |-> "bot", text |-> text]
Fallback == Str(<<"Sorry, I encountered an error. Please check the settings and try again.">>)

\* Line 65: the bot's answer on success, `data.response` as it came.
OnSuccess(prev, data) == Append(prev, Bot(Get(data, "response")))

\* Line 71: the generic answer of the catch block.
OnErrorSilent(prev) == prev
OnError(prev) == Append(prev, Bot(Fallback))

\* Line 69.
FailedText(e) == Concat(Str(<<"Failed to get response: ">>), e.message).val

\* What /api/chat may do, seen from the browser.
ChatFetchOutcomes ==
    { [kind |-> "reject", error |-> [code |-> Undefined, message |-> Str(<<"Failed to fetch">>)]],
      [kind |-> "resolve", ok |-> TRUE], [kind |-> "resolve", ok |-> FALSE] }
ChatBodies == { Obj(<<>>), Obj([response |-> Str(<<"Hi">>)]) }
ChatErrorBodies == { Obj(<<>>), Obj([message |-> Str(<<"Prompt is required.">>)]) }

\* Lines 28-55: handleSendMessage up to its `await fetch(...)`.
HandleSendMessage ==
    IF Trim(inputText) = <<>> THEN UNCHANGED clientVars
    ELSE IF ~useLocal /\ apiKey = <<>> THEN
        /\ error' = <<"Please enter your Gemini API Key for cloud model.">>
        /\ UNCHANGED <<messages, inputText, apiKey, isLoading, showSettings, useLocal,
                       pending, lastReply>>
    ELSE
        /\ Len(messages) + 2 <= MaxMessages
        /\ messages' = Append(messages, User(inputText))
        /\ inputText' = <<>>
        /\ isLoading' = TRUE
        /\ error' = <<>>
        /\ pending' = Append(pending, "fetch")
        /\ UNCHANGED <<apiKey, showSettings, useLocal, lastReply>>

\* Lines 344-352: typing into the input.
TypeText ==
    /\ ~InputDisabled
    /\ \E t \in Texts : inputText' = t
    /\ UNCHANGED <<messages, apiKey, isLoading, error, showSettings, useLocal, pending, lastReply>>
    /\ UNCHANGED serverVars

\* Lines 353-359: a click on the send button.
ClickSend ==
    /\ ~SendDisabled
    /\ HandleSendMessage
    /\ UNCHANGED serverVars

\* Lines 78-82: Enter in the input.
HandleKeyPress ==
    /\ ~InputDisabled
    /\ ~isLoading /\ Trim(inputText) # <<>>
    /\ HandleSendMessage
    /\ UNCHANGED serverVars

\* Lines 250-258: the settings button.
ToggleSettings ==
    /\ showSettings' = ~showSettings
    /\ UNCHANGED <<messages, inputText, apiKey, isLoading, error, useLocal, pending, lastReply>>
    /\ UNCHANGED serverVars

\* Lines 268-274: the model checkbox of the settings panel.
SetUseLocal ==
    /\ showSettings
    /\ useLocal' = ~useLocal
    /\ UNCHANGED <<messages, inputText, apiKey, isLoading, error, showSettings, pending, lastReply>>
    /\ UNCHANGED serverVars

\* Lines 279-294: the key field, shown for the cloud model.
SetApiKey ==
    /\ showSettings /\ ~useLocal
    /\ \E k \in {<<>>, <<"k">>} : apiKey' = k
    /\ error' = <<>>
    /\ UNCHANGED <<messages, inputText, isLoading, showSettings, useLocal, pending, lastReply>>
    /\ UNCHANGED serverVars

\* Lines 67-74: catch and finally.
Catch(i, e, reply) ==
    /\ error' = FailedText(e)
    /\ messages' = OnError(messages)
    /\ isLoading' = FALSE
    /\ pending' = SubSeq(pending, 1, i - 1) \o SubSeq(pending, i + 1, Len(pending))
    /\ lastReply' = reply

\* Lines 47-63: the fetch of one waiting invocation settles.
ChatFetch ==
    /\ \E i \in 1..Len(pending), f \in ChatFetchOutcomes :
        /\ pending[i] = "fetch"
        /\ IF f.kind = "reject" THEN Catch(i, f.error, f)
           ELSE /\ pending' = [pending EXCEPT ![i] = IF f.ok THEN "json" ELSE "jsonError"]
                /\ UNCHANGED <<messages, isLoading, error, lastReply>>
    /\ UNCHANGED <<inputText, apiKey, showSettings, useLocal>>
    /\ UNCHANGED serverVars

\* Lines 59-60: the body of an error response.
ChatJsonError ==
    /\ \E i \in 1..Len(pending), j \in JsonOutcomes(ChatErrorBodies) :
        /\ pending[i] = "jsonError"
        /\ IF j.kind = "reject" THEN Catch(i, j.error, j)
           ELSE Catch(i, Error(Or(Get(j.data, "message"), Str(<<"An error occurred on the server.">>))),
                      [kind |-> "resolve", ok |-> FALSE, data |-> j.data])
    /\ UNCHANGED <<inputText, apiKey, showSettings, useLocal>>
    /\ UNCHANGED serverVars

\* Lines 63-65 and 72-74: the body of a success response.
ChatJson ==
    /\ \E i \in 1..Len(pending), j \in JsonOutcomes(ChatBodies) :
        /\ pending[i] = "json"
        /\ IF j.kind = "reject" THEN Catch(i, j.error, j)
           ELSE /\ messages' = OnSuccess(messages, j.data)
                /\ isLoading' = FALSE
                /\ pending' = SubSeq(pending, 1, i - 1) \o SubSeq(pending, i + 1, Len(pending))
                /\ lastReply' = [kind |-> "resolve", ok |-> TRUE, data |-> j.data]
                /\ UNCHANGED error
    /\ UNCHANGED <<inputText, apiKey, showSettings, useLocal>>
    /\ UNCHANGED serverVars

ClientNext ==
    \/ TypeText \/ ClickSend \/ HandleKeyPress
    \/ ToggleSettings \/ SetUseLocal \/ SetApiKey
    \/ ChatFetch \/ ChatJsonError \/ ChatJson

ClientSpec == Init /\ [][ClientNext]_vars

\* ------------------------------------------------------ server-side claims
Done(r) == pc[r] = "done"
Prefix == Str(<<"Internal server error: ">>)
IsString(v) == v.type = "string"

\* One response, with this status, whose body has a string `message`.
FailsWith(r, status) ==
    /\ Len(sent[r]) = 1
    /\ sent[r][1].status = status
    /\ "message" \in DOMAIN sent[r][1].body
    /\ IsString(sent[r][1].body.message)

\* One response, with this status and exactly this message.
FailsWithMessage(r, status, m) == FailsWith(r, status) /\ sent[r][1].body.message = m

\* The ways a call ends that the adapters recognise.
CloudStatusFailure(r) ==
    /\ Done(r) /\ ~body[r].useLocal
    /\ fres[r].kind = "resolve" /\ ~fres[r].ok /\ jres[r].kind = "resolve"
CloudErrorMessage(r) == Opt(Get(jres[r].data, "error"), "message")
CloudNoContent(r) ==
    /\ Done(r) /\ ~body[r].useLocal
    /\ fres[r].kind = "resolve" /\ fres[r].ok /\ jres[r].kind = "resolve"
    /\ ~Truthy(GeminiText(jres[r].data))
LocalRefused(r) ==
    /\ Done(r) /\ body[r].useLocal
    /\ fres[r].kind = "reject" /\ fres[r].error.code = Str(<<"ECONNREFUSED">>)
LocalStatusFailure(r) ==
    Done(r) /\ body[r].useLocal /\ fres[r].kind = "resolve" /\ ~fres[r].ok
\* The failures no adapter recognises: another transport error, a body that is no JSON.
Unclassified(r) ==
    /\ Done(r)
    /\ \/ fres[r].kind = "reject" /\ ~(body[r].useLocal /\ fres[r].error.code = Str(<<"ECONNREFUSED">>))
       \/ jres[r].kind = "reject"
UnclassifiedError(r) == IF fres[r].kind = "reject" THEN fres[r].error ELSE jres[r].error

RefusedText ==
    Str(<<"Could not connect to the local Ollama server. Please ensure it is running on http://localhost:11434.">>)
StatusText(r) == Concat(Str(<<"Ollama server returned an error: ">>), fres[r].statusText)
NoContentText == Str(<<"No content found in Gemini API response.">>)
RequestFailedText == Str(<<"Gemini API request failed">>)

BlankPrompt(b) == b.prompt = Undefined \/ (IsString(b.prompt) /\ Trim(b.prompt.val) = <<>>)
\* C2 as claimed: a request whose prompt is absent, empty or only whitespace
\* ends in HTTP 400 with a message, for either backend and any apiKey.
C2_BlankPromptRejected ==
    \A r \in Requests : Done(r) /\ BlankPrompt(body[r]) => FailsWith(r, 400)

\* C3: a request with useLocal false and apiKey absent or empty ends in
\* HTTP 400 with a message, whatever the prompt, an empty prompt included.
C3_CloudNeedsKey ==
    \A r \in Requests :
        Done(r) /\ ~body[r].useLocal /\ (body[r].apiKey = Undefined \/ body[r].apiKey = Str(<<>>))
            => FailsWith(r, 400)

C3_Witness ==
    /\ \E r \in Requests :
          /\ Done(r) /\ ~body[r].useLocal /\ body[r].apiKey = Str(<<>>)
          /\ body[r].prompt = Str(<<"h">>) /\ sent[r] = <<ApiKeyRequired>>
    /\ \E r \in Requests :
          /\ Done(r) /\ ~body[r].useLocal /\ body[r].apiKey = Undefined
          /\ body[r].prompt = Str(<<>>) /\ FailsWith(r, 400)

BackendText(r) ==
    IF body[r].useLocal THEN Get(jres[r].data, "response") ELSE GeminiText(jres[r].data)
\* C4 as claimed: an HTTP 200 always carries a response text: when the
\* backend answers a success status without a non-empty text (local: no
\* `response`; cloud: no candidates[0].content.parts[0].text), the result is
\* HTTP 500 with a message, never HTTP 200.
C4_SuccessCarriesText ==
    \A r \in Requests :
        /\ Done(r) /\ Len(sent[r]) > 0 /\ sent[r][1].status = 200
              => /\ "response" \in DOMAIN sent[r][1].body
                 /\ Truthy(sent[r][1].body.response)
        /\ Done(r) /\ fres[r].kind = "resolve" /\ fres[r].ok /\ jres[r].kind = "resolve"
              /\ ~Truthy(BackendText(r))
              => FailsWith(r, 500)

\* Every token of the strings an outbound Ollama request carries.
Tokens(v) == IF IsString(v) THEN {v.val[i] : i \in 1..Len(v.val)} ELSE {}
CallTokens(c) ==
    Tokens(c.url) \cup UNION {Tokens(c.headers[h]) : h \in DOMAIN c.headers}
                 \cup Tokens(c.body.model) \cup Tokens(c.body.prompt)
Validated(r) == pc[r] \notin {"idle", "import"}

\* C5: with useLocal true no apiKey is required; the request sent to the
\* local backend (URL, headers, body) is the same for two requests that
\* differ only in apiKey, the credential appears nowhere in it, and the cloud
\* endpoint is never called.
C5_LocalNeverSeesKey ==
    /\ \A r \in Requests :
          body[r].useLocal =>
              /\ \A i \in 1..Len(calls[r]) :
                    /\ calls[r][i].url = ollamaUrl
                    /\ Tokens(body[r].apiKey) \cap CallTokens(calls[r][i]) = {}
              /\ sent[r] # <<ApiKeyRequired>>
              /\ Validated(r) /\ Truthy(body[r].prompt) => Len(calls[r]) = 1
    /\ \A r, q \in Requests :
          /\ Validated(r) /\ Validated(q)
          /\ body[r].useLocal /\ body[q].useLocal /\ body[r].prompt = body[q].prompt
          => calls[r] = calls[q]

C5_Witness ==
    \E r, q \in Requests :
        /\ Done(r) /\ Done(q)
        /\ body[r].useLocal /\ body[q].useLocal
        /\ body[r].prompt = Str(<<"h">>) /\ body[q].prompt = Str(<<"h">>)
        /\ body[r].apiKey = Str(<<"k">>) /\ body[q].apiKey = Undefined
        /\ Len(calls[r]) = 1 /\ Len(calls[q]) = 1

\* What one request, taken alone, is answered with: a function of its own
\* body and of what its own backend did.
Expected(b, f, j) ==
    IF b.prompt = Undefined \/ b.prompt = Str(<<>>)
    THEN Reply(400, [message |-> Str(<<"Prompt is required.">>)])
    ELSE IF b.useLocal THEN
        IF f.kind = "reject" THEN
            IF f.error.code = Str(<<"ECONNREFUSED">>)
            THEN Reply(500, [message |-> Concat(Prefix, RefusedText)])
            ELSE Reply(500, [message |-> Concat(Prefix, f.error.message)])
        ELSE IF ~f.ok THEN
            Reply(500, [message |-> Str(<<"Internal server error: ", "Ollama server returned an error: ">>
                                         \o f.statusText.val)])
        ELSE IF j.kind = "reject" THEN Reply(500, [message |-> Concat(Prefix, j.error.message)])
        ELSE Reply(200, [response |-> Get(j.data, "response")])
    ELSE IF b.apiKey = Undefined \/ b.apiKey = Str(<<>>)
    THEN Reply(400, [message |-> Str(<<"API Key is required for Cloud model.">>)])
    ELSE IF f.kind = "reject" THEN Reply(500, [message |-> Concat(Prefix, f.error.message)])
    ELSE IF j.kind = "reject" THEN Reply(500, [message |-> Concat(Prefix, j.error.message)])
    ELSE IF ~f.ok THEN
        IF Truthy(Opt(Get(j.data, "error"), "message"))
        THEN Reply(500, [message |-> Concat(Prefix, Opt(Get(j.data, "error"), "message"))])
        ELSE Reply(500, [message |-> Concat(Prefix, RequestFailedText)])
    ELSE IF Truthy(GeminiText(j.data)) THEN Reply(200, [response |-> GeminiText(j.data)])
    ELSE Reply(500, [message |-> Concat(Prefix, NoContentText)])

\* C6: with two requests in flight in any interleaving, each one's result is
\* decided by its own input and its own backend's reply alone, whatever the
\* other does or suffers, and a request that has not finished can always take
\* its next step without the other finishing first.
C6_RequestsIndependent ==
    \A r \in Requests :
        /\ Done(r) => sent[r] = <<Expected(body[r], fres[r], jres[r])>>
        /\ ~Done(r) => sent[r] = <<>> /\ ENABLED (Receive(r) \/ Handle(r))

C6_Witness ==
    \E r, q \in Requests :
        /\ Done(r) /\ body[r].useLocal /\ LocalRefused(r) /\ FailsWith(r, 500)
        /\ Done(q) /\ ~body[q].useLocal
        /\ sent[q] = <<Reply(200, [response |-> Str(<<"Y">>)])>>

Invalid(b) == ~Truthy(b.prompt) \/ (~b.useLocal /\ ~Truthy(b.apiKey))
\* C7: a request causes at most one outbound call: none when validation
\* fails, otherwise exactly one, to the local endpoint when useLocal is true
\* and to the cloud endpoint otherwise; a failed call is neither retried nor
\* replaced by a call to the other backend.
C7_AtMostOneCall ==
    \A r \in Requests :
        /\ Len(calls[r]) <= 1
        /\ Validated(r) /\ Invalid(body[r]) => calls[r] = <<>>
        /\ Validated(r) /\ ~Invalid(body[r])
              => /\ Len(calls[r]) = 1
                 /\ calls[r][1].url =
                        IF body[r].useLocal THEN ollamaUrl ELSE Concat(geminiUrl, body[r].apiKey)

C7_Witness ==
    \E r, q \in Requests :
        /\ Done(r) /\ LocalRefused(r) /\ Len(calls[r]) = 1
        /\ Done(q) /\ CloudStatusFailure(q) /\ Len(calls[q]) = 1

\* The three shapes a response takes: 200 with the object { response }, 400
\* or 500 with an object whose `message` is a string.
WellFormed(resp) ==
    \/ resp.status = 200 /\ DOMAIN resp.body = {"response"}
    \/ resp.status \in {400, 500} /\ "message" \in DOMAIN resp.body /\ IsString(resp.body.message)

C9_LocalVerbatim ==
    \A r \in Requests :
        /\ Done(r) /\ body[r].useLocal /\ Truthy(body[r].prompt)
        /\ fres[r].kind = "resolve" /\ fres[r].ok /\ jres[r].kind = "resolve"
        /\ IsString(Get(jres[r].data, "response"))
        => sent[r] = <<Reply(200, [response |-> Get(jres[r].data, "response")])>>

C9_Witness ==
    \E r \in Requests :
        /\ Done(r) /\ body[r].useLocal /\ body[r].prompt = Str(<<"h">>)
        /\ sent[r] = <<Reply(200, [response |-> Str(<<"X", " ">>)])>>

\* ------------------------------------------------------ client-side claims
\* The bot message that answers a request the server settled as `reply`.
AnswerTo(reply) ==
    IF reply.kind = "resolve" /\ reply.ok THEN Bot(Get(reply.data, "response")) ELSE Bot(Fallback)

ChatInvariant ==
    /\ Len(pending) <= 1
    /\ isLoading <=> pending # <<>>
    /\ \A i \in 1..Len(messages) : messages[i].type = IF i % 2 = 1 THEN "user" ELSE "bot"
    /\ Len(messages) % 2 = IF isLoading THEN 1 ELSE 0
    /\ isLoading => ~ENABLED (ClickSend \/ HandleKeyPress)
    /\ ~isLoading /\ messages # <<>> => messages[Len(messages)] = AnswerTo(lastReply)

\* C10: in the chat client every accepted user message is answered by exactly
\* one bot message when its request completes (the response text on success,
\* the fallback text on an error response or a network failure); isLoading is
\* true exactly while the request is in flight; no send starts while it is
\* true; so the list alternates user, bot, and only ever grows at its end.
C10_ChatAlternates ==
    /\ []ChatInvariant
    /\ [][ /\ Len(messages') \in {Len(messages), Len(messages) + 1}
           /\ SubSeq(messages', 1, Len(messages)) = messages ]_vars

C10_Witness ==
    /\ ~isLoading /\ Len(messages) = 4
    /\ messages[2] = Bot(Fallback)
    /\ messages[4] = Bot(Str(<<"Hi">>))

====
